---- MODULE Spec2Model ----
(***************************************************************************)
(* Model of the pyxgen sprite generator (src/pyxgen.py, with the older     *)
(* src/generator.py, whose count_neighbors and evolve are line for line    *)
(* the same).                                                              *)
(*                                                                         *)
(* A bitmap is a Python list of lists.  It is modelled as an object on a   *)
(* heap: heap is a sequence of grids and a reference is an index into it,  *)
(* so that copying (deepcopy) and mutating in place (insert, extend,       *)
(* bitmap[y][x] = 2) are different things.  A grid is a sequence of rows,  *)
(* a row a sequence of cell codes 0 (background), 1 (alive), 2 (outline).  *)
(* Coordinates x, y are 0-based as in the source; TLA+ sequences are       *)
(* 1-based, hence the +1 in every subscript.                               *)
(***************************************************************************)
EXTENDS Integers, Sequences, FiniteSets, TLC

VARIABLES heap, bitmap, given, pc,
          color, outline_color, bg_color, transparency, img,
          arg, rets, cn

vars == <<heap, bitmap, given, pc, color, outline_color, bg_color,
          transparency, img, arg, rets, cn>>

\* ------------------------------------------------------------------ constants
H == 8
W == 4
OUTLINE_DARKEN_RATE == 90
MaxChannel == 255
ImgSize == 10

\* ------------------------------------------------------------------ bounds
\* At most MaxAlive cells of a seed depart from the all-background (or the
\* all-alive) grid.
MaxAlive == 2
\* A seed may instead be arbitrary in MaxNoiseRows rows at the top or at the
\* bottom, and background elsewhere.
MaxNoiseRows == 2
\* Most cells of a grid handed to count_neighbors, evolve and the mirroring
\* alone (rows times columns).
MaxCells == 10
\* Most cells of a bitmap handed to create_sprite alone.
MaxSpriteCells == 2

\* ------------------------------------------------------------------ helpers
None == <<>>

B2I(b) == IF b THEN 1 ELSE 0

Max0(a) == IF a > 0 THEN a ELSE 0

Reverse(s) == [i \in 1..Len(s) |-> s[Len(s) + 1 - i]]

Zeros(n) == [i \in 1..n |-> 0]

\* ------------------------------------------------------------------ count_neighbors
count_neighbors_nonzero(state, x, y) ==
    (IF x > 0 THEN B2I(state[y + 1][x] # 0) ELSE 0)
  + (IF y > 0 THEN B2I(state[y][x + 1] # 0) ELSE 0)
  + (IF x < Len(state[y + 1]) - 1 THEN B2I(state[y + 1][x + 2] # 0) ELSE 0)
  + (IF y < Len(state) - 1 THEN B2I(state[y + 2][x + 1] # 0) ELSE 0)

count_neighbors_wrap(state, x, y) ==
    LET w == Len(state[y + 1])
        h == Len(state)
    IN  B2I(state[y + 1][((x + w - 1) % w) + 1] = 1)
      + B2I(state[((y + h - 1) % h) + 1][x + 1] = 1)
      + B2I(state[y + 1][((x + 1) % w) + 1] = 1)
      + B2I(state[((y + 1) % h) + 1][x + 1] = 1)

count_neighbors(state, x, y) ==
    (IF x > 0 THEN B2I(state[y + 1][x] = 1) ELSE 0)
  + (IF y > 0 THEN B2I(state[y][x + 1] = 1) ELSE 0)
  + (IF x < Len(state[y + 1]) - 1 THEN B2I(state[y + 1][x + 2] = 1) ELSE 0)
  + (IF y < Len(state) - 1 THEN B2I(state[y + 2][x + 1] = 1) ELSE 0)

\* ------------------------------------------------------------------ evolve
\* new_state = deepcopy(state): a fresh object with the same contents.
deepcopy_alias(h, ref) == [heap |-> h, ref |-> ref]

deepcopy(h, ref) == [heap |-> Append(h, h[ref]), ref |-> Len(h) + 1]

\* The value written to new_state[y][x].
next_cell_conway(cell, neighbors) ==
    B2I((cell = 0 /\ neighbors = 3)
        \/ (cell = 1 /\ (neighbors = 2 \/ neighbors = 3)))

next_cell_strict(cell, neighbors) ==
    B2I((cell = 0 /\ neighbors < 1)
        \/ (cell = 1 /\ (neighbors = 2 \/ neighbors = 3)))

next_cell(cell, neighbors) ==
    B2I((cell = 0 /\ neighbors <= 1)
        \/ (cell = 1 /\ (neighbors = 2 \/ neighbors = 3)))

\* The two nested loops, cell i being the i-th one visited (row by row):
\* every read is of h[state], every write is to h[new_state].
RECURSIVE evolve_loop(_, _, _, _)
evolve_loop(h, state, new_state, i) ==
    LET w == Len(h[state][1])
        y == i \div w
        x == i % w
    IN  IF i >= Len(h[state]) * w THEN h
        ELSE evolve_loop(
               [h EXCEPT ![new_state][y + 1][x + 1] =
                    next_cell(h[state][y + 1][x + 1],
                              count_neighbors(h[state], x, y))],
               state, new_state, i + 1)

evolve(h, state) ==
    LET c == deepcopy(h, state)
    IN  [heap |-> evolve_loop(c.heap, state, c.ref, 0), ref |-> c.ref]

\* ------------------------------------------------------------------ generate_bitmap
\* line.insert(0, 0) for every line, then a row of zeros on top and one at
\* the bottom, each as long as the (already widened) first row.
grow_no_left(g) ==
    <<Zeros(Len(g[1]))>> \o g \o <<Zeros(Len(g[1]))>>

grow_no_bottom(g) ==
    LET widened == [r \in 1..Len(g) |-> <<0>> \o g[r]]
    IN  <<Zeros(Len(widened[1]))>> \o widened

grow(g) ==
    LET widened == [r \in 1..Len(g) |-> <<0>> \o g[r]]
        top     == <<Zeros(Len(widened[1]))>> \o widened
    IN  Append(top, Zeros(Len(top[1])))

\* The outline loop: cells are visited row by row and the bitmap is written
\* while it is being scanned, so the count for cell i sees the marks made
\* for the cells before it.
RECURSIVE mark_outline(_, _)
mark_outline(g, i) ==
    LET w == Len(g[1])
        y == i \div w
        x == i % w
    IN  IF i >= Len(g) * w THEN g
        ELSE IF g[y + 1][x + 1] = 0 /\ count_neighbors(g, x, y) > 0
             THEN mark_outline([g EXCEPT ![y + 1][x + 1] = 2], i + 1)
             ELSE mark_outline(g, i + 1)

\* ------------------------------------------------------------------ create_sprite
mirror_repeat(g) == [r \in 1..Len(g) |-> g[r] \o g[r]]

mirror(g) == [r \in 1..Len(g) |-> g[r] \o Reverse(g[r])]

darken_unclamped(c) == [i \in 1..Len(c) |-> c[i] - OUTLINE_DARKEN_RATE]

darken(c) == [i \in 1..Len(c) |-> Max0(c[i] - OUTLINE_DARKEN_RATE)]

color_map_opaque(cell, col, outl, bg, transp) ==
    CASE cell = 0 -> bg
      [] cell = 1 -> col
      [] cell = 2 -> outl

color_map(cell, col, outl, bg, transp) ==
    CASE cell = 0 -> IF ~transp THEN bg ELSE <<255, 255, 255, 0>>
      [] cell = 1 -> col
      [] cell = 2 -> outl

\* Image.new('RGBA', (10, 10)): every pixel (0, 0, 0, 0).
new_image == [size |-> <<ImgSize, ImgSize>>,
              px |-> [p \in (0..ImgSize - 1) \X (0..ImgSize - 1)
                        |-> <<0, 0, 0, 0>>]]

\* What an RGBA image stores for a colour: a 3-tuple gets alpha 255.
rgba(c) == IF Len(c) = 3 THEN Append(c, 255) ELSE c

\* The putpixel loops over the whole bitmap.
putpixels(im, g, col, outl, bg, transp) ==
    [im EXCEPT !.px =
        [p \in DOMAIN im.px |->
            IF p[2] < Len(g) /\ p[1] < Len(g[p[2] + 1])
            THEN rgba(color_map(g[p[2] + 1][p[1] + 1], col, outl, bg, transp))
            ELSE im.px[p]]]

\* Every cell of the bitmap has a pixel to go to (putpixel raises otherwise).
fits(im, g) ==
    /\ Len(g) <= im.size[2]
    /\ \A r \in 1..Len(g) : Len(g[r]) <= im.size[1]

\* ------------------------------------------------------------------ inputs
Cells == {0, 1}

\* choice([0, 1]) for each of the H x W cells; the draws are enumerated as
\* the grids in which at most MaxAlive cells differ from a uniform grid.
\* f lists the positions (1..H*W, row by row) of the differing cells, 0
\* standing for no cell.
seed_of(f, base) ==
    LET picked == {f[k] : k \in DOMAIN f}
    IN  [r \in 1..H |-> [c \in 1..W |->
            IF (r - 1) * W + c \in picked THEN 1 - base ELSE base]]

seed_window(g, off) ==
    [r \in 1..H |-> [c \in 1..W |->
        IF r - off \in DOMAIN g THEN g[r - off][c] ELSE 0]]

\* The colours a caller passes: every channel value 0..MaxChannel occurs in
\* every channel position, plus the default and the documented example.
ColorInputs ==
    {<<c, MaxChannel - c, (c + OUTLINE_DARKEN_RATE) % (MaxChannel + 1)>> :
        c \in 0..MaxChannel}
    \cup {<<0, 255, 0>>, <<10, 20, 30>>}

OutlineInputs == {None, <<0, 185, 0>>}

BgInputs == {<<255, 255, 255>>, <<12, 34, 56>>}

\* The shapes h x w of at most n cells.
Shapes(n) == {s \in (1..n) \X (1..n) : s[1] * s[2] <= n}

\* A grid of 0/1 cells in which cell k (1..h*w row by row; 0 for none)
\* carries the outline code instead.
grid_of(g, w, k) ==
    [r \in 1..Len(g) |-> [c \in 1..w |->
        IF k = (r - 1) * w + c THEN 2 ELSE g[r][c]]]

\* g is a rectangular grid of at most MaxCells cells with at most one
\* outline cell.
IsFnGrid(g) ==
    \E s \in Shapes(MaxCells) :
    \E b \in [1..s[1] -> [1..s[2] -> Cells]], k \in 0..(s[1] * s[2]) :
        g = grid_of(b, s[2], k)

\* g is a rectangular bitmap of at most MaxSpriteCells cells, of any codes.
IsSpriteGrid(g) ==
    \E s \in Shapes(MaxSpriteCells) : g \in [1..s[1] -> [1..s[2] -> {0, 1, 2}]]

is_binary(g) == \A r \in 1..Len(g) : \A c \in 1..Len(g[r]) : g[r][c] \in Cells

\* ------------------------------------------------------------------ the pipeline
\* main: create_sprite(generate_bitmap(), color, outline, background, transparency)
Init ==
    /\ heap = <<>>
    /\ bitmap = 0
    /\ given = <<>>
    /\ pc = "seed"
    /\ color = None
    /\ outline_color = None
    /\ bg_color = None
    /\ transparency = FALSE
    /\ img = None
    /\ arg = 0
    /\ rets = <<>>
    /\ cn = [x |-> 0, y |-> 0, count |-> 0]

Seed ==
    /\ pc = "seed"
    /\ \/ \E f \in [1..MaxAlive -> 0..(H * W)], base \in Cells :
             heap' = <<seed_of(f, base)>> /\ given' = seed_of(f, base)
       \/ \E g \in [1..MaxNoiseRows -> [1..W -> Cells]],
             off \in {0, H - MaxNoiseRows} :
             heap' = <<seed_window(g, off)>> /\ given' = seed_window(g, off)
    /\ bitmap' = 1
    /\ pc' = "evolve1"
    /\ UNCHANGED <<color, outline_color, bg_color, transparency, img,
                   arg, rets, cn>>

EvolveFirst ==
    /\ pc = "evolve1"
    /\ LET r == evolve(heap, bitmap)
       IN  heap' = r.heap /\ bitmap' = r.ref
    /\ pc' = "evolve2"
    /\ UNCHANGED <<given, color, outline_color, bg_color, transparency, img,
                   arg, rets, cn>>

EvolveSecond ==
    /\ pc = "evolve2"
    /\ LET r == evolve(heap, bitmap)
       IN  heap' = r.heap /\ bitmap' = r.ref
    /\ pc' = "grow"
    /\ UNCHANGED <<given, color, outline_color, bg_color, transparency, img,
                   arg, rets, cn>>

Grow ==
    /\ pc = "grow"
    /\ heap' = [heap EXCEPT ![bitmap] = grow(@)]
    /\ pc' = "outline"
    /\ UNCHANGED <<bitmap, given, color, outline_color, bg_color,
                   transparency, img, arg, rets, cn>>

MarkOutline ==
    /\ pc = "outline"
    /\ heap' = [heap EXCEPT ![bitmap] = mark_outline(@, 0)]
    /\ pc' = "create_sprite"
    /\ UNCHANGED <<bitmap, given, color, outline_color, bg_color,
                   transparency, img, arg, rets, cn>>

\* The call made by main with the defaults of its arguments; create_sprite
\* with other colours and flags is exercised by SpecSprite.
CallCreateSprite ==
    /\ pc = "create_sprite"
    /\ color' = <<0, 255, 0>>
    /\ outline_color' = None
    /\ bg_color' = <<255, 255, 255>>
    /\ transparency' = FALSE
    /\ pc' = "mirror"
    /\ UNCHANGED <<heap, bitmap, given, img, arg, rets, cn>>

Mirror ==
    /\ pc = "mirror"
    /\ heap' = [heap EXCEPT ![bitmap] = mirror(@)]
    /\ pc' = "derive"
    /\ UNCHANGED <<bitmap, given, color, outline_color, bg_color,
                   transparency, img, arg, rets, cn>>

DeriveOutline ==
    /\ pc = "derive"
    /\ outline_color' = IF outline_color = None THEN darken(color)
                        ELSE outline_color
    /\ pc' = "raster"
    /\ UNCHANGED <<heap, bitmap, given, color, bg_color, transparency, img,
                   arg, rets, cn>>

Rasterize ==
    /\ pc = "raster"
    /\ IF fits(new_image, heap[bitmap])
       THEN /\ img' = putpixels(new_image, heap[bitmap], color, outline_color,
                                bg_color, transparency)
            /\ pc' = "done"
       ELSE /\ img' = new_image
            /\ pc' = "IndexError"
    /\ UNCHANGED <<heap, bitmap, given, color, outline_color, bg_color,
                   transparency, arg, rets, cn>>

Next ==
    \/ Seed
    \/ EvolveFirst
    \/ EvolveSecond
    \/ Grow
    \/ MarkOutline
    \/ CallCreateSprite
    \/ Mirror
    \/ DeriveOutline
    \/ Rasterize

Spec == Init /\ [][Next]_vars

\* ------------------------------------------------------------------ create_sprite alone
InitSprite ==
    /\ IsSpriteGrid(given)
    /\ heap = <<given>>
    /\ bitmap = 1
    /\ pc = "mirror"
    /\ color \in ColorInputs
    /\ outline_color \in OutlineInputs
    /\ bg_color \in BgInputs
    /\ transparency \in BOOLEAN
    /\ img = None
    /\ arg = 0
    /\ rets = <<>>
    /\ cn = [x |-> 0, y |-> 0, count |-> 0]

NextSprite ==
    \/ Mirror
    \/ DeriveOutline
    \/ Rasterize

SpecSprite == InitSprite /\ [][NextSprite]_vars

\* ------------------------------------------------------------------ the functions alone
InitFn ==
    /\ IsFnGrid(given)
    /\ heap = <<given>>
    /\ bitmap = 0
    /\ pc = "call"
    /\ color = None
    /\ outline_color = None
    /\ bg_color = None
    /\ transparency = FALSE
    /\ img = None
    /\ arg = 1
    /\ rets = <<>>
    /\ cn = [x |-> 0, y |-> 0, count |-> 0]

CallCountNeighbors ==
    /\ pc = "call"
    /\ \E y \in 0..(Len(heap[arg]) - 1) :
       \E x \in 0..(Len(heap[arg][y + 1]) - 1) :
          cn' = [x |-> x, y |-> y, count |-> count_neighbors(heap[arg], x, y)]
    /\ pc' = "counted"
    /\ UNCHANGED <<heap, bitmap, given, color, outline_color, bg_color,
                   transparency, img, arg, rets>>

CallEvolve ==
    /\ pc = "call"
    /\ is_binary(heap[arg])
    /\ LET r == evolve(heap, arg)
       IN  heap' = r.heap /\ rets' = <<r.ref>>
    /\ pc' = "evolved"
    /\ UNCHANGED <<bitmap, given, color, outline_color, bg_color,
                   transparency, img, arg, cn>>

CallEvolveAgain ==
    /\ pc = "evolved"
    /\ LET r == evolve(heap, arg)
       IN  heap' = r.heap /\ rets' = Append(rets, r.ref)
    /\ pc' = "evolved_twice"
    /\ UNCHANGED <<bitmap, given, color, outline_color, bg_color,
                   transparency, img, arg, cn>>

CallMirror ==
    /\ pc = "call"
    /\ heap' = [heap EXCEPT ![arg] = mirror(@)]
    /\ pc' = "mirrored"
    /\ UNCHANGED <<bitmap, given, color, outline_color, bg_color,
                   transparency, img, arg, rets, cn>>

NextFn ==
    \/ CallCountNeighbors
    \/ CallEvolve
    \/ CallEvolveAgain
    \/ CallMirror

SpecFn == InitFn /\ [][NextFn]_vars

\* ------------------------------------------------------------------ vocabulary of the properties
InGrid(g, x, y) == y \in 0..(Len(g) - 1) /\ x \in 0..(Len(g[y + 1]) - 1)

At(g, x, y) == g[y + 1][x + 1]

Adjacent(x, y) == {<<x - 1, y>>, <<x + 1, y>>, <<x, y - 1>>, <<x, y + 1>>}

\* The in-bounds orthogonal neighbours of (x, y), and the alive ones.
Around(g, x, y) == {p \in Adjacent(x, y) : InGrid(g, p[1], p[2])}

AliveAround(g, x, y) == {p \in Around(g, x, y) : At(g, p[1], p[2]) = 1}

Coords(g) == {p \in (0..(Len(g[1]) - 1)) \X (0..(Len(g) - 1)) : TRUE}

Rectangular(g, h, w) == Len(g) = h /\ \A r \in 1..h : Len(g[r]) = w

OnCorner(g, x, y) ==
    x \in {0, Len(g[1]) - 1} /\ y \in {0, Len(g) - 1}

OnEdge(g, x, y) ==
    x \in {0, Len(g[1]) - 1} \/ y \in {0, Len(g) - 1}

Finished == pc \in {"derive", "raster", "done"}

\* ------------------------------------------------------------------ C1
\* C1: evolve returns a grid of the dimensions of its input in which a cell
\* is Alive exactly when, in the input, it is Background with at most one
\* alive neighbour or Alive with two or three, and Background otherwise;
\* the counts are those of the input grid.
C1_EvolveRule ==
    pc = "evolved" =>
        LET out == heap[rets[1]]
        IN  /\ Rectangular(out, Len(given), Len(given[1]))
            /\ \A p \in Coords(given) :
                 LET n == Cardinality(AliveAround(given, p[1], p[2]))
                     c == At(given, p[1], p[2])
                 IN  At(out, p[1], p[2]) =
                       IF (c = 0 /\ n <= 1) \/ (c = 1 /\ n \in {2, 3})
                       THEN 1 ELSE 0

\* An input where updating in place would differ: a cell that is born has a
\* later neighbour whose count, taken from the input, is at most one.
C1_Witness ==
    /\ pc = "evolved"
    /\ \E p \in Coords(given) :
         /\ At(given, p[1], p[2]) = 0
         /\ At(heap[rets[1]], p[1], p[2]) = 1
         /\ InGrid(given, p[1] + 1, p[2])
         /\ At(given, p[1] + 1, p[2]) = 0
         /\ Cardinality(AliveAround(given, p[1] + 1, p[2])) = 1
         /\ At(heap[rets[1]], p[1] + 1, p[2]) = 1

\* ------------------------------------------------------------------ C2
\* C2: count_neighbors(G, x, y) is in 0..4 and is the number of in-bounds
\* cells among the four orthogonal positions whose code is Alive; positions
\* outside the grid are not counted, so a corner gives at most 2 and an edge
\* at most 3, and Outline cells do not count.
C2_NeighborCount ==
    pc = "counted" =>
        /\ cn.count \in 0..4
        /\ cn.count = Cardinality(AliveAround(given, cn.x, cn.y))
        /\ OnCorner(given, cn.x, cn.y) => cn.count <= 2
        /\ OnEdge(given, cn.x, cn.y) => cn.count <= 3

\* A non-corner edge cell with three in-bounds neighbours, two of them Alive
\* and one Outline: the count is 2.
C2_Witness ==
    /\ pc = "counted"
    /\ OnEdge(given, cn.x, cn.y)
    /\ ~OnCorner(given, cn.x, cn.y)
    /\ cn.count = 2
    /\ Cardinality(Around(given, cn.x, cn.y)) = 3
    /\ \E p \in Around(given, cn.x, cn.y) : At(given, p[1], p[2]) = 2

\* ------------------------------------------------------------------ C3
\* C3: outline marking leaves every Alive cell of the grown grid Alive, and
\* turns a Background cell of the grown grid into Outline exactly when it
\* has an Alive orthogonal neighbour in the grown grid; the other
\* Background cells stay Background.
C3_Marked(before, after) ==
    /\ Rectangular(after, Len(before), Len(before[1]))
    /\ \A p \in Coords(before) :
         At(after, p[1], p[2]) =
            IF At(before, p[1], p[2]) = 1 THEN 1
            ELSE IF AliveAround(before, p[1], p[2]) # {} THEN 2
            ELSE 0

C3_OutlineMarking ==
    [][pc = "outline" => C3_Marked(heap[bitmap], heap'[bitmap])]_vars

\* A marked grid in which a Background cell kept its code although the cell
\* scanned just before it (to its left, or above it) was turned into Outline.
C3_Witness ==
    /\ pc = "create_sprite"
    /\ Rectangular(heap[bitmap], H + 2, W + 1)
    /\ \E p \in Coords(heap[bitmap]) :
         /\ At(heap[bitmap], p[1], p[2]) = 0
         /\ \E q \in {<<p[1] - 1, p[2]>>, <<p[1], p[2] - 1>>} :
              /\ InGrid(heap[bitmap], q[1], q[2])
              /\ At(heap[bitmap], q[1], q[2]) = 2

\* ------------------------------------------------------------------ C4
\* C4: mirroring keeps the rows and their order, makes every row the input
\* row followed by its reverse (width 2W), so that grid[y][x] equals
\* grid[y][2W-1-x].
C4_Mirror ==
    pc = "mirrored" =>
        LET g == heap[arg]
            w == Len(given[1])
        IN  /\ Rectangular(g, Len(given), 2 * w)
            /\ \A y \in 0..(Len(g) - 1) :
                 /\ SubSeq(g[y + 1], 1, w) = given[y + 1]
                 /\ \A x \in 0..(2 * w - 1) :
                      At(g, x, y) = At(g, 2 * w - 1 - x, y)

\* A mirrored grid one of whose input rows is not its own reverse.
C4_Witness ==
    /\ pc = "mirrored"
    /\ Len(given) > 1
    /\ \E r \in 1..Len(given) :
         /\ given[r][1] # given[r][Len(given[r])]
         /\ heap[arg][r][Len(heap[arg][r])] = given[r][1]

\* ------------------------------------------------------------------ C5
\* C5 (as stated): the finished grid and the pixel buffer are 10 x 20.
C5_Original ==
    pc = "done" =>
        /\ Rectangular(heap[bitmap], 10, 20)
        /\ img.size = <<20, 10>>

\* C5 (amended): the finished grid handed to the rasterizer has 10 rows of
\* 10 cells, the post-outline width 5 doubled by mirroring, and the pixel
\* buffer returned is 10 x 10.
C5_NativeSize ==
    /\ pc = "mirror" => Rectangular(heap[bitmap], 10, 5)
    /\ Finished => Rectangular(heap[bitmap], 10, 10)
    /\ pc = "done" =>
         /\ img.size = <<10, 10>>
         /\ DOMAIN img.px = (0..9) \X (0..9)

C5_Witness ==
    /\ pc = "done"
    /\ Rectangular(heap[bitmap], 10, 10)
    /\ img.size = <<10, 10>>
    /\ given # [r \in 1..H |-> [c \in 1..W |-> 0]]

\* ------------------------------------------------------------------ C6
\* C6: from the all-Background 8 x 4 seed the first step gives the all-Alive
\* grid; there every cell's alive-neighbour count is its number of in-bounds
\* neighbours (2, 3 or 4), and the second step leaves Alive exactly the cells
\* with 2 or 3 of them, the interior cells (4) being Background.
AllBackground == [r \in 1..H |-> [c \in 1..W |-> 0]]

C6_Golden ==
    given = AllBackground =>
        /\ pc = "evolve2" =>
             /\ heap[bitmap] = [r \in 1..H |-> [c \in 1..W |-> 1]]
             /\ \A p \in Coords(heap[bitmap]) :
                  /\ AliveAround(heap[bitmap], p[1], p[2])
                        = Around(heap[bitmap], p[1], p[2])
                  /\ Cardinality(Around(heap[bitmap], p[1], p[2])) \in {2, 3, 4}
        /\ pc = "grow" =>
             heap[bitmap] =
                [r \in 1..H |-> [c \in 1..W |->
                    IF r \in {1, H} \/ c \in {1, W} THEN 1 ELSE 0]]

C6_Witness ==
    /\ given = AllBackground
    /\ pc = "grow"
    /\ At(heap[bitmap], 0, 0) = 1
    /\ At(heap[bitmap], 0, 3) = 1
    /\ At(heap[bitmap], 1, 3) = 0

\* ------------------------------------------------------------------ C7
\* C7: evolve leaves the grid it is given as it was, returns a grid that is
\* another object, and two calls on the same input return equal grids.
C7_EvolvePure ==
    /\ pc \in {"evolved", "evolved_twice"} =>
         /\ heap[arg] = given
         /\ \A i \in DOMAIN rets : rets[i] # arg
    /\ pc = "evolved_twice" =>
         /\ rets[1] # rets[2]
         /\ heap[rets[1]] = heap[rets[2]]

\* Two calls on an input that evolve changes.
C7_Witness ==
    /\ pc = "evolved_twice"
    /\ heap[rets[2]] # given
    /\ Len(given) = 3
    /\ Len(given[1]) = 3

\* ------------------------------------------------------------------ C8
\* C8: the pixel of every cell of the finished grid holds the colour of the
\* cell's code: the main colour for Alive, the outline colour for Outline,
\* and for Background the fully transparent value when the transparency flag
\* is set, whatever the background colour, and the background colour
\* otherwise.
C8_Raster ==
    pc = "done" =>
        \A p \in Coords(heap[bitmap]) :
            LET c  == At(heap[bitmap], p[1], p[2])
                px == img.px[p]
            IN  /\ c = 1 => SubSeq(px, 1, 3) = color /\ px[4] = 255
                /\ c = 2 => SubSeq(px, 1, 3) = outline_color /\ px[4] = 255
                /\ c = 0 /\ transparency => px[4] = 0
                /\ c = 0 /\ ~transparency =>
                     SubSeq(px, 1, 3) = bg_color /\ px[4] = 255

\* A transparent sprite with a background colour other than white, holding
\* an Alive cell and a Background cell, whose pixel has alpha 0.
C8_Witness ==
    /\ pc = "done"
    /\ transparency
    /\ bg_color # <<255, 255, 255>>
    /\ \E p \in Coords(heap[bitmap]) :
         At(heap[bitmap], p[1], p[2]) = 1 /\ SubSeq(img.px[p], 1, 3) = color
    /\ \E p \in Coords(heap[bitmap]) :
         At(heap[bitmap], p[1], p[2]) = 0 /\ img.px[p][4] = 0

\* ------------------------------------------------------------------ C9
\* C9: with no outline colour supplied, the outline colour is, channel by
\* channel, the main colour's channel less 90 and not below 0, hence within
\* 0..165; a supplied outline colour is used as it is.
C9_Derived(main, supplied, used) ==
    IF supplied = None
    THEN /\ Len(used) = Len(main)
         /\ \A i \in DOMAIN main :
              /\ used[i] = IF main[i] >= 90 THEN main[i] - 90 ELSE 0
              /\ used[i] \in 0..165
    ELSE used = supplied

C9_OutlineColor ==
    [][pc = "derive" => C9_Derived(color, outline_color, outline_color')]_vars

\* The documented example: (10, 20, 30) gives (0, 0, 0).
C9_Witness ==
    /\ pc = "raster"
    /\ color = <<10, 20, 30>>
    /\ outline_color = <<0, 0, 0>>

\* ------------------------------------------------------------------ C10
\* C10: in the finished grid no Alive cell lies in the first or last row or
\* column, no Background cell is orthogonally next to an Alive cell (the
\* mirror seam included), and every Outline cell has an Alive neighbour.
C10_Enclosed ==
    Finished =>
        LET g == heap[bitmap]
            h == Len(g)
            w == Len(g[1])
        IN  \A r \in 1..h : \A c \in 1..w :
              /\ g[r][c] = 1 => r \notin {1, h} /\ c \notin {1, w}
              /\ c < w => {g[r][c], g[r][c + 1]} # {0, 1}
              /\ r < h => {g[r][c], g[r + 1][c]} # {0, 1}
              /\ g[r][c] = 2 =>
                   \/ c > 1 /\ g[r][c - 1] = 1
                   \/ c < w /\ g[r][c + 1] = 1
                   \/ r > 1 /\ g[r - 1][c] = 1
                   \/ r < h /\ g[r + 1][c] = 1

\* A finished sprite with an Alive cell on the seam and an Outline cell on
\* the seam.
C10_Witness ==
    /\ pc = "done"
    /\ \E y \in 0..9 : At(heap[bitmap], 4, y) = 1 /\ At(heap[bitmap], 5, y) = 1
    /\ \E y \in 0..9 : At(heap[bitmap], 4, y) = 2 /\ At(heap[bitmap], 5, y) = 2
    /\ \E p \in Coords(heap[bitmap]) : At(heap[bitmap], p[1], p[2]) = 0

====
